---- MODULE Spec2Model ----
(***************************************************************************)
(* A model of the vscode-git-blame extension: the process runner           *)
(* (src/src/run-command.ts), the blame lookup with its shared activeBlame  *)
(* reference and the porcelain parser (src/src/extension.ts).              *)
(*                                                                         *)
(* Text is a sequence of one-character strings.  Bytes on a pipe are       *)
(* one-byte strings; the two bytes "C3" "A9" are the UTF-8 encoding of the *)
(* character written "U+E9", and "U+FFFD" is the replacement character.    *)
(***************************************************************************)
EXTENDS Integers, Sequences, FiniteSets, TLC

\* -------------------------------------------------------------------------
\* Bounds of the model
\* -------------------------------------------------------------------------

\* Largest number of lines of a generated porcelain text.
MaxLines == 11

\* Longest text drawn freely from FreeAlphabet.
MaxFree == 3

\* Most stdout chunks one process delivers in a run of runCommand alone.
MaxRunChunks == 2

\* Most bytes of one stdout chunk in a run of runCommand alone.
MaxChunkLen == 2

\* Most stderr data events handled in one behaviour.
MaxStderr == 1

\* Most blame processes in flight (spawned and not yet closed) at once.
MaxLive == 2

\* Most stdout chunks held by the blame processes in flight.
MaxData == 2

VARIABLES
    input,            \* parseBlame alone: the text handed to it
    parsed,           \* parseBlame alone: what the call produced
    pstate,           \* per process slot: none, running, failing, errored, closed
    signalled,        \* per process: SIGKILL has been sent to it
    stdout,           \* per process: the chunks its stdout delivered so far
    buffer,           \* per runCommand call: its closure variable 'buffer'
    promise,          \* per runCommand call: the state of its promise
    stderrSeen,       \* number of stderr data events handled
    raised,           \* the exceptions the last step left uncaught
    showInlineHints,  \* extension.ts: let showInlineHints
    activeBlame,      \* extension.ts: let activeBlame (0 is null)
    lookup,           \* per getBlame call in flight: its caller and editor
    order,            \* the blame processes in flight, oldest first
    superseded,       \* per getBlame call in flight: a newer call was made
    returned,         \* the value a getBlame call returned in the last step
    cursor,           \* per editor: editor.selection.active.line
    decoration,       \* per editor: what setDecorations last installed
    message,          \* the message showBlame showed in the last step
    offset,           \* formatTimeAgo alone: (date - now) / 1000 of the last call
    formatted,        \* formatTimeAgo alone: what the last call produced
    remembered,       \* formatTimeAgo alone: one earlier call and its outcome
    remoteUrlResult,  \* open online alone: the result of the ls-remote lookup
    url               \* open online alone: what the flow opened or reported

parseVars == <<input, parsed>>

timeVars == <<offset, formatted, remembered>>

urlVars == <<remoteUrlResult, url>>

\* State of the functions that are modelled on their own.
pureVars == <<parseVars, timeVars, urlVars>>

runVars == <<pstate, signalled, stdout, buffer, promise, stderrSeen, raised>>

extVars == <<showInlineHints, activeBlame, lookup, order, superseded, returned,
             cursor, decoration, message>>

vars == <<input, parsed, pstate, signalled, stdout, buffer, promise,
          stderrSeen, raised, showInlineHints, activeBlame, lookup, order,
          superseded, returned, cursor, decoration, message, offset,
          formatted, remembered, remoteUrlResult, url>>

\* -------------------------------------------------------------------------
\* JavaScript string primitives used by the source
\* -------------------------------------------------------------------------

Min(a, b) == IF a < b THEN a ELSE b

Max(a, b) == IF a > b THEN a ELSE b

\* String.prototype.indexOf(c): 0-based position of the first c, or -1.
IndexOf(s, c) ==
    IF \E i \in 1..Len(s) : s[i] = c
    THEN (CHOOSE i \in 1..Len(s) : s[i] = c /\ \A j \in 1..(i - 1) : s[j] # c) - 1
    ELSE -1

\* String.prototype.substring(a, b): both ends clamped to 0..length and
\* swapped when a > b; the characters at 0-based positions lo..hi-1.
Substring(s, a, b) ==
    LET ca == Max(0, Min(a, Len(s)))
        cb == Max(0, Min(b, Len(s)))
        lo == Min(ca, cb)
        hi == Max(ca, cb)
    IN  SubSeq(s, lo + 1, hi)

\* String.prototype.substring(a): to the end of the string.
SubstringFrom(s, a) == Substring(s, a, Len(s))

\* String.prototype.split("\n"): the pieces between newlines; always at
\* least one piece (the empty text splits into one empty piece).
RECURSIVE SplitFrom(_, _, _)
SplitFrom(s, start, i) ==
    IF i > Len(s) THEN <<SubSeq(s, start, Len(s))>>
    ELSE IF s[i] = "\n" THEN <<SubSeq(s, start, i - 1)>> \o SplitFrom(s, i + 1, i + 1)
    ELSE SplitFrom(s, start, i + 1)

Split(s) == SplitFrom(s, 1, 1)

\* A JavaScript number as far as the parser needs it: an integer or NaN.
NaN == [nan |-> TRUE, val |-> 0]

Num(n) == [nan |-> FALSE, val |-> n]

Digits == {"0", "1", "2", "3", "4", "5", "6", "7", "8", "9"}

DigitVal(c) ==
    CASE c = "0" -> 0 [] c = "1" -> 1 [] c = "2" -> 2 [] c = "3" -> 3
      [] c = "4" -> 4 [] c = "5" -> 5 [] c = "6" -> 6 [] c = "7" -> 7
      [] c = "8" -> 8 [] OTHER -> 9

WhiteSpace == {" ", "\n", "\t", "\r"}

RECURSIVE SkipWhite(_)
SkipWhite(s) ==
    IF s # <<>> /\ Head(s) \in WhiteSpace THEN SkipWhite(Tail(s)) ELSE s

RECURSIVE DigitRun(_, _, _)
DigitRun(s, seen, acc) ==
    IF s # <<>> /\ Head(s) \in Digits
    THEN DigitRun(Tail(s), TRUE, acc * 10 + DigitVal(Head(s)))
    ELSE IF seen THEN Num(acc) ELSE NaN

\* Number.parseInt(s, 10): leading white space skipped, an optional sign,
\* then the longest run of decimal digits; NaN when there is no digit.
ParseInt(s) ==
    LET t == SkipWhite(s)
    IN  IF t # <<>> /\ Head(t) = "-"
        THEN LET r == DigitRun(Tail(t), FALSE, 0)
             IN  IF r.nan THEN NaN ELSE Num(0 - r.val)
        ELSE IF t # <<>> /\ Head(t) = "+" THEN DigitRun(Tail(t), FALSE, 0)
        ELSE DigitRun(t, FALSE, 0)

\* -------------------------------------------------------------------------
\* parseBlame (src/src/extension.ts)
\* -------------------------------------------------------------------------

\* Length of the sentinel revision id compared against in parseBlame.
ShaLen == 40

\* "0000000000000000000000000000000000000000"
ZeroSha == [i \in 1..ShaLen |-> "0"]

\* Values a call can produce: a BlameStruct, an Error object that is
\* returned, or an exception that is thrown.
ErrorValue(msg) == [kind |-> "error", message |-> msg]

Thrown(what) == [kind |-> "throw", message |-> what]

\* String.prototype.lastIndexOf(c).
LastIndexOf(s, c) ==
    IF \E i \in 1..Len(s) : s[i] = c
    THEN (CHOOSE i \in 1..Len(s) : s[i] = c /\ \A j \in (i + 1)..Len(s) : s[j] # c) - 1
    ELSE -1

\* Mutant of FieldValue: the value is cut at the last space of the line.
FieldValueAfterLastSpace(line) == SubstringFrom(line, LastIndexOf(line, " ") + 1)

\* lines[i].substring(lines[i].indexOf(" ") + 1)
FieldValue(line) == SubstringFrom(line, IndexOf(line, " ") + 1)

\* const sha = lines[0].substring(0, lines[0].indexOf(" "))
ShaOf(line0) == Substring(line0, 0, IndexOf(line0, " "))

\* Mutant of IsUncommitted: any run of zeros counts as the sentinel.
IsUncommittedAnyZeros(sha) == Len(sha) > 0 /\ \A i \in 1..Len(sha) : sha[i] = "0"

\* if (sha === "0000000000000000000000000000000000000000")
IsUncommitted(sha) == sha = ZeroSha

\* lines[i] of a JavaScript array (0-based).
At(lines, i) == lines[i + 1]

\* The 0-based indices the field assignments of parseBlame read.
LinesRead == {1, 2, 3, 5, 6, 7, 9}

\* The field assignments of parseBlame.  Reading lines[i] at or beyond the
\* length of the array gives undefined, and calling .substring on undefined
\* throws a TypeError out of parseBlame.
BlameFields(lines, sha) ==
    IF \E i \in LinesRead : i >= Len(lines)
    THEN Thrown("TypeError")
    ELSE [kind |-> "record",
          author |-> [name |-> FieldValue(At(lines, 1)),
                      email |-> FieldValue(At(lines, 2)),
                      time |-> ParseInt(FieldValue(At(lines, 3)))],
          committer |-> [name |-> FieldValue(At(lines, 5)),
                         email |-> FieldValue(At(lines, 6)),
                         time |-> ParseInt(FieldValue(At(lines, 7)))],
          sha |-> sha,
          summary |-> FieldValue(At(lines, 9))]

parseBlame(blameString) ==
    LET lines == Split(blameString)
        sha == ShaOf(At(lines, 0))
    IN  IF IsUncommitted(sha)
        THEN ErrorValue("Change not committed yet")
        ELSE BlameFields(lines, sha)

\* -------------------------------------------------------------------------
\* runCommand (src/src/run-command.ts)
\* -------------------------------------------------------------------------

\* Process slots.  A blame process takes a free slot when it is spawned and
\* gives it back when its lookup has completed.
Procs == 1..MaxLive

\* Buffer.prototype.toString(): UTF-8 decoding of one chunk on its own.  A
\* lead byte without its continuation byte, and a continuation byte without
\* a lead byte, each decode to the replacement character.
RECURSIVE Utf8From(_, _)
Utf8From(bytes, i) ==
    IF i > Len(bytes) THEN <<>>
    ELSE IF bytes[i] = "C3"
    THEN IF i + 1 <= Len(bytes) /\ bytes[i + 1] = "A9"
         THEN <<"U+E9">> \o Utf8From(bytes, i + 2)
         ELSE <<"U+FFFD">> \o Utf8From(bytes, i + 1)
    ELSE IF bytes[i] = "A9" THEN <<"U+FFFD">> \o Utf8From(bytes, i + 1)
    ELSE <<bytes[i]>> \o Utf8From(bytes, i + 1)

Utf8Decode(bytes) == Utf8From(bytes, 1)

\* States of the promise runCommand returns.
Pending == [kind |-> "pending"]

Undefined == [kind |-> "undefined"]

Str(text) == [kind |-> "string", text |-> text]

\* The events runCommand registers a listener for.
Listeners == {"stdout.data", "stderr.data", "close"}

\* Mutant of BufferOf: one buffer shared by all runCommand calls.
BufferOfShared(p) == 1

\* The buffer a data event of process p appends to: the 'let buffer' of the
\* promise executor of p's own runCommand call.
BufferOf(p) == p

\* process.stdout.on("data", data => { buffer += data; })
OnStdoutData(buf, data) == buf \o Utf8Decode(data)

\* Mutant of OnClose: the buffer is resolved whether or not it is empty.
OnCloseAlwaysBuffer(buf, code) == Str(buf)

\* process.on("close", (code) => { ... }): what the promise resolves to.
OnClose(buf, code) == IF Len(buf) > 0 THEN Str(buf) ELSE Undefined

\* Exit codes a close event can carry ("null": ended by a signal).
ExitCodes == {"0", "1", "null"}

\* A stdout data event of process p carrying the chunk data.
StdoutData(p, data) ==
    /\ pstate[p] = "running"
    /\ stdout' = [stdout EXCEPT ![p] = Append(@, data)]
    /\ buffer' = [buffer EXCEPT ![BufferOf(p)] = OnStdoutData(@, data)]
    /\ raised' = {}
    /\ UNCHANGED <<pstate, signalled, promise, stderrSeen>>

\* A stderr data event of process p: the listener does nothing.
StderrData(p) ==
    /\ pstate[p] = "running"
    /\ stderrSeen < MaxStderr
    /\ stderrSeen' = stderrSeen + 1
    /\ raised' = {}
    /\ UNCHANGED <<pstate, signalled, stdout, buffer, promise>>

\* The process could not be spawned: on the next tick after spawn() the
\* child emits 'error'.  runCommand registers no listener for it, so the
\* emit throws (an uncaught exception) out of the child's exit handler
\* before 'close' is emitted; with a listener the events would go on to
\* 'close'.
SpawnErrorOutcome ==
    IF "error" \in Listeners
    THEN [state |-> "running", raised |-> {}]
    ELSE [state |-> "errored", raised |-> {"spawn error"}]

SpawnError(p) ==
    /\ pstate[p] = "failing"
    /\ pstate' = [pstate EXCEPT ![p] = SpawnErrorOutcome.state]
    /\ raised' = SpawnErrorOutcome.raised
    /\ UNCHANGED <<signalled, stdout, buffer, promise, stderrSeen>>

\* The close event of process p: the runner's part of it.
RunnerClose(p, code) ==
    /\ pstate[p] = "running"
    /\ pstate' = [pstate EXCEPT ![p] = "closed"]
    /\ promise' = [promise EXCEPT ![p] = OnClose(buffer[p], code)]

\* -------------------------------------------------------------------------
\* Values of the variables a specification does not use
\* -------------------------------------------------------------------------

NotCalled == [kind |-> "none"]

NoDecoration == [kind |-> "none"]

NoMessage == [kind |-> "none"]

NoLookup == [kind |-> "none"]

Editors == {1, 2}

ParseIdle == input = <<>> /\ parsed = NotCalled

\* A rational number n / d in lowest terms, d > 0.
Zero == [kind |-> "rat", n |-> 0, d |-> 1]

NoCall == [kind |-> "none"]

TimeIdle == offset = Zero /\ formatted = NotCalled /\ remembered = NoCall

UrlIdle == remoteUrlResult = Pending /\ url = NotCalled

PureIdle == ParseIdle /\ TimeIdle /\ UrlIdle

RunIdle ==
    /\ pstate = [p \in Procs |-> "none"]
    /\ signalled = [p \in Procs |-> FALSE]
    /\ stdout = [p \in Procs |-> <<>>]
    /\ buffer = [p \in Procs |-> <<>>]
    /\ promise = [p \in Procs |-> Pending]
    /\ stderrSeen = 0
    /\ raised = {}

ExtIdle ==
    /\ showInlineHints = FALSE
    /\ activeBlame = 0
    /\ lookup = [p \in Procs |-> NoLookup]
    /\ order = <<>>
    /\ superseded = [p \in Procs |-> FALSE]
    /\ returned = NotCalled
    /\ cursor = [e \in Editors |-> 0]
    /\ decoration = [e \in Editors |-> NoDecoration]
    /\ message = NoMessage

\* -------------------------------------------------------------------------
\* parseBlame on its own: the texts it is applied to
\* -------------------------------------------------------------------------

RECURSIVE Join(_)
Join(lines) ==
    IF Len(lines) = 0 THEN <<>>
    ELSE IF Len(lines) = 1 THEN lines[1]
    ELSE lines[1] \o <<"\n">> \o Join(Tail(lines))

\* Texts a line of the given 0-based index is drawn from.
LineCands(i) ==
    IF i = 0
    THEN {ZeroSha \o <<" ", "1", " ", "1">>, ZeroSha,
          <<"a", "0", " ", "1", " ", "1">>, <<"a", "0">>,
          Tail(ZeroSha) \o <<" ", "1">>}
    ELSE IF i = 3
    THEN {<<"t", " ", "1", "0">>, <<"t", " ", "x">>}
    ELSE IF i = 7
    THEN {<<"t", " ", "0", "7">>, <<"t", " ", "1">>}
    ELSE IF i \in {4, 8}
    THEN {<<"z", " ", "1">>, <<"z", " ", "2">>}
    ELSE IF i >= 10
    THEN {<<"f", " ", "n">>, <<>>}
    ELSE {<<"k", " ", "v">>, <<"k", " ", "v", " ", "w">>}

RECURSIVE LineSeqs(_)
LineSeqs(n) ==
    IF n = 0 THEN {<<>>}
    ELSE {Append(ls, c) : ls \in LineSeqs(n - 1), c \in LineCands(n - 1)}

FreeAlphabet == {"0", "a", " ", "\n"}

RECURSIVE FreeTexts(_)
FreeTexts(n) ==
    IF n = 0 THEN {<<>>}
    ELSE {Append(t, c) : t \in FreeTexts(n - 1), c \in FreeAlphabet}

\* The non-empty texts parseBlame is applied to: porcelain texts of 1 to
\* MaxLines lines (fewer than ten: output cut short), and every text of at
\* most MaxFree characters.
ParseInputs ==
    {Join(ls) : ls \in UNION {LineSeqs(n) : n \in 1..MaxLines}}
        \cup UNION {FreeTexts(n) : n \in 1..MaxFree}

InitParse ==
    /\ input \in ParseInputs
    /\ parsed = NotCalled
    /\ TimeIdle
    /\ UrlIdle
    /\ RunIdle
    /\ ExtIdle

\* One call parseBlame(input).
Parse ==
    /\ parsed = NotCalled
    /\ parsed' = parseBlame(input)
    /\ UNCHANGED <<input, timeVars, urlVars, runVars, extVars>>

NextParse == Parse

SpecParse == InitParse /\ [][NextParse]_vars

\* -------------------------------------------------------------------------
\* What the claims say about a porcelain text, stated without the parser
\* -------------------------------------------------------------------------

NewlinesOf(t) == {k \in 1..Len(t) : t[k] = "\n"}

LineCount(t) == Cardinality(NewlinesOf(t)) + 1

\* Position of the newline that ends the line of 0-based index i; the end
\* of the text for the last line.
LineEnd(t, i) ==
    IF i + 1 = LineCount(t) THEN Len(t) + 1
    ELSE CHOOSE k \in NewlinesOf(t) :
             Cardinality({j \in NewlinesOf(t) : j < k}) = i

\* The line of 0-based index i of the text.
LineOf(t, i) ==
    LET from == IF i = 0 THEN 1 ELSE LineEnd(t, i - 1) + 1
        to == LineEnd(t, i) - 1
    IN  [k \in 1..(to - from + 1) |-> t[from + k - 1]]

HasSpace(l) == \E k \in 1..Len(l) : l[k] = " "

FirstSpace(l) == CHOOSE k \in 1..Len(l) : l[k] = " " /\ \A j \in 1..(k - 1) : l[j] # " "

BeforeFirstSpace(l) == [k \in 1..(FirstSpace(l) - 1) |-> l[k]]

AfterFirstSpace(l) == [k \in 1..(Len(l) - FirstSpace(l)) |-> l[FirstSpace(l) + k]]

AllDigits(t) == Len(t) > 0 /\ \A k \in 1..Len(t) : t[k] \in Digits

RECURSIVE Decimal(_)
Decimal(t) ==
    IF Len(t) = 0 THEN 0
    ELSE 10 * Decimal(SubSeq(t, 1, Len(t) - 1)) + DigitVal(t[Len(t)])

FortyZeros(t) == Len(t) = 40 /\ \A k \in 1..Len(t) : t[k] = "0"

\* The first line holds a space and the token before it is forty zeros.
SentinelInput(t) == HasSpace(LineOf(t, 0)) /\ FortyZeros(BeforeFirstSpace(LineOf(t, 0)))

\* Lines 0..9 are present, the keyed lines hold "key value", the two time
\* lines hold "key digits", and the revision id is not the sentinel.
WellFormed(t) ==
    /\ LineCount(t) >= 10
    /\ \A i \in {0, 1, 2, 3, 5, 6, 7, 9} : HasSpace(LineOf(t, i))
    /\ \A i \in {3, 7} : AllDigits(AfterFirstSpace(LineOf(t, i)))
    /\ ~FortyZeros(BeforeFirstSpace(LineOf(t, 0)))

\* C4 (as claimed): for every non-empty text, parseBlame returns an
\* attribution record or a failure value; it never throws.
C4_NeverThrows ==
    (parsed # NotCalled /\ input # <<>>) => parsed.kind \in {"record", "error"}

\* C5: for every well-formed input with lines 0..9 and a non-sentinel
\* revision id, parseBlame returns the record whose sha is the prefix of
\* line 0 before its first space, whose names, e-mails and summary are the
\* texts after the first space of lines 1, 2, 5, 6 and 9, and whose times
\* are the decimal values of the texts after the first space of lines 3 and
\* 7; nothing of lines 4 and 8 enters the record.
C5_RecordFields ==
    (parsed # NotCalled /\ WellFormed(input)) =>
        parsed = [kind |-> "record",
                  sha |-> BeforeFirstSpace(LineOf(input, 0)),
                  author |-> [name |-> AfterFirstSpace(LineOf(input, 1)),
                              email |-> AfterFirstSpace(LineOf(input, 2)),
                              time |-> Num(Decimal(AfterFirstSpace(LineOf(input, 3))))],
                  committer |-> [name |-> AfterFirstSpace(LineOf(input, 5)),
                                 email |-> AfterFirstSpace(LineOf(input, 6)),
                                 time |-> Num(Decimal(AfterFirstSpace(LineOf(input, 7))))],
                  summary |-> AfterFirstSpace(LineOf(input, 9))]

\* C5 witness: a well-formed text of exactly ten lines has been parsed into
\* a record whose summary holds a further space and whose committer time
\* was written with a leading zero.
C5_Witness ==
    /\ parsed # NotCalled
    /\ WellFormed(input)
    /\ LineCount(input) = 10
    /\ parsed.kind = "record"
    /\ parsed.summary = <<"v", " ", "w">>
    /\ parsed.committer.time = Num(7)
    /\ LineOf(input, 4) # LineOf(input, 8)

\* C6: parseBlame returns the 'Change not committed yet' failure exactly
\* when the token before the first space of the first line is forty zeros,
\* whatever the other lines hold and whether or not they are present; in
\* that case it returns no record, and for any other revision id it never
\* returns that failure.
C6_SentinelFails ==
    parsed # NotCalled =>
        (SentinelInput(input) <=> parsed = ErrorValue("Change not committed yet"))

\* C6 witness: a text of one line only, with the sentinel revision id, has
\* been answered with the failure.
C6_Witness ==
    /\ parsed = ErrorValue("Change not committed yet")
    /\ LineCount(input) = 1
    /\ SentinelInput(input)

\* -------------------------------------------------------------------------
\* runCommand on its own: one call, then the events of its process
\* -------------------------------------------------------------------------

\* Bytes a process writes: an ASCII letter and the two bytes of U+E9.
RunBytes == {"a", "C3", "A9"}

RECURSIVE BytesOfLen(_)
BytesOfLen(n) ==
    IF n = 0 THEN {<<>>}
    ELSE {Append(t, c) : t \in BytesOfLen(n - 1), c \in RunBytes}

\* The chunks a data event can carry: never empty.
RunChunks == UNION {BytesOfLen(n) : n \in 1..MaxChunkLen}

\* After runCommand(command, args, opts) returned: spawn() gave a running
\* process, or one that failed to start and will emit 'error'.
InitRun ==
    /\ PureIdle
    /\ ExtIdle
    /\ pstate \in {[p \in Procs |-> IF p = 1 THEN st ELSE "none"] : st \in {"running", "failing"}}
    /\ signalled = [p \in Procs |-> FALSE]
    /\ stdout = [p \in Procs |-> <<>>]
    /\ buffer = [p \in Procs |-> <<>>]
    /\ promise = [p \in Procs |-> Pending]
    /\ stderrSeen = 0
    /\ raised = {}

RunStdout ==
    \E data \in RunChunks :
        /\ Len(stdout[1]) < MaxRunChunks
        /\ StdoutData(1, data)
        /\ UNCHANGED <<pureVars, extVars>>

RunStderr == StderrData(1) /\ UNCHANGED <<pureVars, extVars>>

RunSpawnError == SpawnError(1) /\ UNCHANGED <<pureVars, extVars>>

RunClose ==
    \E code \in ExitCodes :
        /\ RunnerClose(1, code)
        /\ raised' = {}
        /\ UNCHANGED <<signalled, stdout, buffer, stderrSeen>>
        /\ UNCHANGED <<pureVars, extVars>>

NextRun == RunStdout \/ RunStderr \/ RunSpawnError \/ RunClose

SpecRun == InitRun /\ [][NextRun]_vars

\* All bytes process p wrote to stdout, in order.
RECURSIVE Flatten(_)
Flatten(chunks) == IF chunks = <<>> THEN <<>> ELSE Head(chunks) \o Flatten(Tail(chunks))

\* C7: a process that closed without having delivered a single stdout byte
\* resolves the promise to undefined, whatever arrived on stderr and
\* whatever the exit code; no promise ever resolves to the empty string.
C7_NoOutputIsUndefined ==
    \A p \in Procs :
        /\ (pstate[p] = "closed" /\ Flatten(stdout[p]) = <<>>) => promise[p] = Undefined
        /\ promise[p] # Str(<<>>)

\* C7 witness: a process wrote to stderr only and has closed; the promise
\* is resolved to undefined.
C7_Witness ==
    /\ pstate[1] = "closed"
    /\ stdout[1] = <<>>
    /\ stderrSeen > 0
    /\ promise[1] = Undefined

\* C8 (as claimed): the promise is pending until the close event, and for
\* a non-empty output it then resolves to exactly the text the process
\* wrote (its bytes as UTF-8), however the bytes were split into chunks.
C8_ResolvesToOutput ==
    \A p \in Procs :
        /\ pstate[p] # "closed" => promise[p] = Pending
        /\ (pstate[p] = "closed" /\ Flatten(stdout[p]) # <<>>) =>
               promise[p] = Str(Utf8Decode(Flatten(stdout[p])))

\* C9 (as claimed): a process that could not be spawned raises no
\* exception and its promise resolves to undefined.
C9_SpawnFailureAbsorbed ==
    /\ "spawn error" \notin raised
    /\ \A p \in Procs : pstate[p] = "errored" => promise[p] = Undefined

\* -------------------------------------------------------------------------
\* The extension (src/src/extension.ts): getBlame and its callers
\* -------------------------------------------------------------------------

\* editor.document.uri.path of the two editors: a file on disk and a
\* document whose path is relative.
Path(e) == IF e = 1 THEN <<"/", "a">> ELSE <<"u", "/", "a">>

\* String.prototype.startsWith(prefix)
StartsWith(str, prefix) ==
    Len(str) >= Len(prefix) /\ SubSeq(str, 1, Len(prefix)) = prefix

\* Mutant of PathAccepted: any path that holds a slash is taken.
PathAcceptedAnySlash(path) == \E i \in 1..Len(path) : path[i] = "/"

\* editor.document.uri.path.startsWith("/")
PathAccepted(path) == StartsWith(path, <<"/">>)

\* String.prototype.slice(a, b) for 0 <= a <= b.
Slice(str, a, b) == SubSeq(str, a + 1, Min(b, Len(str)))

\* The slot the next spawned blame process takes.
NextId ==
    IF \E p \in Procs : pstate[p] = "none"
    THEN CHOOSE p \in Procs : pstate[p] = "none" /\ \A q \in 1..(p - 1) : pstate[q] # "none"
    ELSE MaxLive + 1

\* What activeBlame holds when it refers to a process that failed to start.
FailedProc == 0 - 1

\* if (!result): undefined and the empty string are falsy.
Falsy(result) == result = Undefined \/ result = Str(<<>>)

\* Mutant of GetBlameResult: the parser is given whatever text there is.
GetBlameResultAlwaysParsed(result) ==
    parseBlame(IF result = Undefined THEN <<>> ELSE result.text)

\* The part of getBlame after 'await command.promise'.
GetBlameResult(result) ==
    IF Falsy(result) THEN ErrorValue("Unknown error..") ELSE parseBlame(result.text)

\* contentText of the inline hint.  The relative time is kept as the
\* committer time it is formatted from.
ContentText(blame) ==
    IF blame.kind = "error" THEN [message |-> blame.message]
    ELSE [name |-> blame.committer.name,
          sha |-> Slice(blame.sha, 0, 8),
          time |-> blame.committer.time,
          summary |-> IF Len(blame.summary) > 20
                      THEN Slice(blame.summary, 0, 18) \o <<".", ".", ".">>
                      ELSE Slice(blame.summary, 0, 18)]

Shown(contentText, line) == [kind |-> "shown", contentText |-> contentText, line |-> line]

\* What showBlame displays for a returned value.
MessageFor(blame) ==
    IF blame.kind = "error"
    THEN [kind |-> "error", text |-> <<"Failed to blame: ", blame.message>>]
    ELSE [kind |-> "info", name |-> blame.committer.name, time |-> blame.committer.time,
          summary |-> blame.summary, sha |-> blame.sha]

\* activeBlame.kill("SIGKILL"): the signal goes to a process that runs; a
\* process that never started has nothing to signal.
Kill(target) ==
    IF target \in Procs /\ pstate[target] = "running"
    THEN [signalled EXCEPT ![target] = TRUE]
    ELSE signalled

\* getBlame with an accepted path, up to 'await command.promise': the
\* process activeBlame refers to is killed, a new process is spawned and
\* activeBlame refers to it.  spawn() returns a process that runs, or one
\* that failed to start: that one emits 'error' on the next tick, before
\* any other event is handled, never emits 'close' and leaves its lookup
\* pending for ever, so it takes no slot.
GetBlameSpawn(e, caller) ==
    LET p == NextId
    IN  /\ signalled' = IF activeBlame # 0 THEN Kill(activeBlame) ELSE signalled
        /\ superseded' = [q \in Procs |-> pstate[q] = "running"]
        /\ \/ /\ p <= MaxLive
              /\ pstate' = [pstate EXCEPT ![p] = "running"]
              /\ activeBlame' = p
              /\ lookup' = [lookup EXCEPT ![p] = [kind |-> "lookup", caller |-> caller,
                                                  editor |-> e]]
              /\ order' = Append(order, p)
              /\ raised' = {}
           \/ /\ activeBlame' = FailedProc
              /\ raised' = SpawnErrorOutcome.raised
              /\ UNCHANGED <<pstate, lookup, order>>
        /\ returned' = NotCalled
        /\ UNCHANGED <<stdout, buffer, promise, stderrSeen>>

\* getBlame with a path that is not accepted returns at once.
GetBlameRejected == ErrorValue("Cannot blame non-existent file")

\* onSelectionChange after its showInlineHints test: the decoration is
\* cleared and getBlame is called; a rejected call returns at once and its
\* continuation installs the message before any other event is handled.
InlineLookup(e) ==
    IF PathAccepted(Path(e))
    THEN /\ GetBlameSpawn(e, "inline")
         /\ decoration' = [decoration EXCEPT ![e] = NoDecoration]
    ELSE /\ decoration' = [decoration EXCEPT
                               ![e] = Shown(ContentText(GetBlameRejected), cursor[e])]
         /\ returned' = GetBlameRejected
         /\ raised' = {}
         /\ UNCHANGED <<pstate, signalled, stdout, buffer, promise, stderrSeen>>
         /\ UNCHANGED <<activeBlame, lookup, order, superseded>>

\* onDidChangeTextEditorSelection for editor e: onSelectionChange(e) runs.
SelectionChange(e) ==
    /\ showInlineHints
    /\ InlineLookup(e)
    /\ message' = NoMessage
    /\ UNCHANGED <<showInlineHints, cursor, pureVars>>

\* The command extension.git-blame with e the active editor.
ShowBlame(e) ==
    /\ IF PathAccepted(Path(e))
       THEN GetBlameSpawn(e, "show") /\ message' = NoMessage
       ELSE /\ message' = MessageFor(GetBlameRejected)
            /\ returned' = GetBlameRejected
            /\ raised' = {}
            /\ UNCHANGED <<pstate, signalled, stdout, buffer, promise, stderrSeen>>
            /\ UNCHANGED <<activeBlame, lookup, order, superseded>>
    /\ UNCHANGED <<showInlineHints, cursor, decoration, pureVars>>

\* The command extension.git-blame.toggle-inline-hints; e is the active
\* editor, 0 when there is none.
ToggleInlineHints(e) ==
    /\ showInlineHints' = ~showInlineHints
    /\ IF e # 0 /\ ~showInlineHints
       THEN InlineLookup(e)
       ELSE /\ decoration' = IF e # 0
                             THEN [decoration EXCEPT ![e] = NoDecoration]
                             ELSE decoration
            /\ returned' = NotCalled
            /\ raised' = {}
            /\ UNCHANGED <<pstate, signalled, stdout, buffer, promise, stderrSeen>>
            /\ UNCHANGED <<activeBlame, lookup, order, superseded>>
    /\ message' = NoMessage
    /\ UNCHANGED <<cursor, pureVars>>

\* Texts a blame process writes: a porcelain answer for a revision id.
PorcelainText(id) ==
    Join(<< <<id, " ", "1">>, <<"a", " ", "n">>, <<"m", " ", "e">>, <<"t", " ", "1">>,
            <<"z">>, <<"c", " ", "n">>, <<"m", " ", "e">>, <<"t", " ", "2">>,
            <<"z">>, <<"s", " ", "x">>, <<>> >>)

\* The chunks a blame process delivers: a whole answer, or one cut short.
BlameChunks == {PorcelainText("a"), <<"b", " ", "1", "\n">>}

\* Number of stdout chunks the processes in flight have delivered.
DataEvents ==
    Cardinality({pi \in Procs \X (1..MaxData) : pi[2] <= Len(stdout[pi[1]])})

ProcStdout(p) ==
    \E data \in BlameChunks :
        /\ DataEvents < MaxData
        /\ StdoutData(p, data)
        /\ returned' = NotCalled
        /\ message' = NoMessage
        /\ UNCHANGED <<showInlineHints, activeBlame, lookup, order, superseded>>
        /\ UNCHANGED <<cursor, decoration, pureVars>>

\* order without p.
Without(seq, p) == SelectSeq(seq, LAMBDA q : q # p)

\* The close event of blame process p: the promise resolves, getBlame
\* resumes (activeBlame = null, then the result is examined) and its caller
\* resumes with the returned value, all before any other event is handled.
\* An exception thrown by parseBlame rejects both async functions: nothing
\* is displayed and the rejection is unhandled.  What belonged to the call
\* alone (the process, its pipe, the closure's buffer, the promise, the
\* caller's frame) is unreachable afterwards, and the slot is free.
ProcClose(p) ==
    \E code \in ExitCodes :
        LET blame == GetBlameResult(OnClose(buffer[p], code))
            e == lookup[p].editor
        IN  /\ pstate[p] = "running"
            /\ pstate' = [pstate EXCEPT ![p] = "none"]
            /\ signalled' = [signalled EXCEPT ![p] = FALSE]
            /\ stdout' = [stdout EXCEPT ![p] = <<>>]
            /\ buffer' = [buffer EXCEPT ![p] = <<>>]
            /\ lookup' = [lookup EXCEPT ![p] = NoLookup]
            /\ order' = Without(order, p)
            /\ superseded' = [superseded EXCEPT ![p] = FALSE]
            /\ activeBlame' = 0
            /\ returned' = blame
            /\ IF blame.kind = "throw"
               THEN /\ raised' = {blame.message}
                    /\ message' = NoMessage
                    /\ UNCHANGED decoration
               ELSE IF lookup[p].caller = "inline"
               THEN /\ decoration' = [decoration EXCEPT
                                          ![e] = Shown(ContentText(blame), cursor[e])]
                    /\ raised' = {}
                    /\ message' = NoMessage
               ELSE /\ message' = MessageFor(blame)
                    /\ raised' = {}
                    /\ UNCHANGED decoration
            /\ UNCHANGED <<promise, stderrSeen, showInlineHints, cursor, pureVars>>

\* After activate(): no lookup was made, hints are off.
Init == PureIdle /\ RunIdle /\ ExtIdle

Next ==
    \/ \E e \in Editors : SelectionChange(e)
    \/ \E e \in Editors : ShowBlame(e)
    \/ \E e \in Editors \cup {0} : ToggleInlineHints(e)
    \/ \E p \in Procs : ProcStdout(p)
    \/ \E p \in Procs : ProcClose(p)

Spec == Init /\ [][Next]_vars

\* -------------------------------------------------------------------------
\* Properties of the lookups
\* -------------------------------------------------------------------------

\* Blame processes that run and were not sent SIGKILL.
Unsignalled == {p \in Procs : pstate[p] = "running" /\ ~signalled[p]}

\* C1 (as claimed): at no time are there two blame processes that both
\* still run and were not yet sent the kill signal.
C1_AtMostOneLive == Cardinality(Unsignalled) <= 1

\* The step is the close event of blame process p.
Closes(p) == pstate[p] = "running" /\ pstate'[p] = "none"

\* The text a runCommand call accumulates from the chunks of its own
\* process: each chunk converted to a string, in arrival order.
RECURSIVE TextOf(_)
TextOf(chunks) ==
    IF chunks = <<>> THEN <<>> ELSE Utf8Decode(Head(chunks)) \o TextOf(Tail(chunks))

\* What getBlame returns for a process that wrote the given chunks.
ResultOf(chunks) ==
    IF TextOf(chunks) = <<>>
    THEN ErrorValue("Unknown error..")
    ELSE parseBlame(TextOf(chunks))

\* C2: in every interleaving of lookups, stdout data and close events, the
\* value getBlame returns when the process of a lookup closes is derived
\* from the bytes that very process wrote and from nothing else; output of
\* an overlapping lookup's process never is part of it.
C2_OwnBytesOnly ==
    [][\A p \in Procs : Closes(p) => returned' = ResultOf(stdout[p])]_vars

\* C2 witness: a lookup returned a record while the process of an older,
\* superseded and killed lookup still runs and has delivered output.
C2_Witness ==
    /\ returned.kind = "record"
    /\ \E q \in Procs :
           /\ pstate[q] = "running"
           /\ superseded[q]
           /\ signalled[q]
           /\ stdout[q] # <<>>

\* C3 (as claimed): when the process of a superseded lookup closes, the
\* continuation of that lookup writes neither the editor decoration nor a
\* message.
C3_StaleIgnored ==
    [][\A p \in Procs :
          (Closes(p) /\ superseded[p]) =>
              (decoration' = decoration /\ message' = NoMessage)]_vars

\* The step is a getBlame call for editor e, made by one of its callers.
GetBlameCall(e) ==
    \/ ShowBlame(e)
    \/ SelectionChange(e)
    \/ ~showInlineHints /\ ToggleInlineHints(e)

\* C10: in every state, a getBlame call for a document whose path does not
\* start with "/" returns the failure "Cannot blame non-existent file" and
\* spawns no process: the processes, the signals sent and activeBlame are
\* as they were.
C10_RelativePathRejected ==
    [][\A e \in Editors :
          (Path(e)[1] # "/" /\ GetBlameCall(e)) =>
              /\ returned' = ErrorValue("Cannot blame non-existent file")
              /\ pstate' = pstate
              /\ signalled' = signalled
              /\ activeBlame' = activeBlame]_vars

\* C10 witness: a call for the document with the relative path returned the
\* failure while a blame process runs, unsignalled and still referred to
\* by activeBlame.
C10_Witness ==
    /\ returned = ErrorValue("Cannot blame non-existent file")
    /\ activeBlame \in Unsignalled

\* C11: whenever a blame process closes and the buffer of its runCommand
\* call is empty (a process killed by a superseding lookup before it wrote
\* anything included), getBlame returns the failure "Unknown error..": not a
\* record, and not what the parser makes of an empty text.
C11_NoOutputIsFailure ==
    [][\A p \in Procs :
          (Closes(p) /\ buffer[p] = <<>>) =>
              returned' = ErrorValue("Unknown error..")]_vars

\* C11 witness: a lookup returned "Unknown error.." while the lookup that
\* superseded it still runs.
C11_Witness ==
    /\ returned = ErrorValue("Unknown error..")
    /\ activeBlame = 0
    /\ \E q \in Procs : pstate[q] = "running" /\ ~superseded[q] /\ ~signalled[q]

\* -------------------------------------------------------------------------
\* formatTimeAgo (src/unnamed/part_000)
\* -------------------------------------------------------------------------

\* Numbers are exact: a rational [kind "rat", n, d] in lowest terms with
\* d > 0, or NaN (the time of an invalid Date).  The offsets drawn below are
\* multiples of a millisecond whose quotients are never within a rounding
\* error of a threshold or of a tie, so the exact value decides as the
\* floating-point value does.
RECURSIVE GCD(_, _)
GCD(a, b) == IF b = 0 THEN a ELSE GCD(b, a % b)

Abs(x) == IF x < 0 THEN 0 - x ELSE x

Rat(n, d) ==
    LET g == GCD(Abs(n), d)
    IN  [kind |-> "rat", n |-> n \div g, d |-> d \div g]

NaNTime == [kind |-> "nan", n |-> 0, d |-> 1]

\* a < b for rationals.
RatLess(a, b) ==
    LET g == GCD(a.d, b.d)
    IN  a.n * (b.d \div g) < b.n * (a.d \div g)

\* a / b for rationals, b > 0.
RatDiv(a, b) ==
    LET g1 == GCD(Abs(a.n), b.n)
        g2 == GCD(a.d, b.d)
    IN  Rat((a.n \div g1) * (b.d \div g2), (a.d \div g2) * (b.n \div g1))

\* Math.abs
MathAbs(x) == IF x.kind = "nan" THEN x ELSE [x EXCEPT !.n = Abs(x.n)]

\* Math.round: floor(x + 0.5), NaN for NaN.
MathRound(x) ==
    IF x.kind = "nan" THEN x ELSE Rat((2 * x.n + x.d) \div (2 * x.d), 1)

Infinity == [kind |-> "inf", n |-> 1, d |-> 1]

\* Mutant of DIVISIONS: the years tier has a finite amount.
DIVISIONSFiniteYears ==
    << [amount |-> Rat(60, 1), name |-> "seconds"],
       [amount |-> Rat(60, 1), name |-> "minutes"],
       [amount |-> Rat(24, 1), name |-> "hours"],
       [amount |-> Rat(7, 1), name |-> "days"],
       [amount |-> Rat(434524, 100000), name |-> "weeks"],
       [amount |-> Rat(12, 1), name |-> "months"],
       [amount |-> Rat(1, 1), name |-> "years"] >>

\* const DIVISIONS
DIVISIONS ==
    << [amount |-> Rat(60, 1), name |-> "seconds"],
       [amount |-> Rat(60, 1), name |-> "minutes"],
       [amount |-> Rat(24, 1), name |-> "hours"],
       [amount |-> Rat(7, 1), name |-> "days"],
       [amount |-> Rat(434524, 100000), name |-> "weeks"],
       [amount |-> Rat(12, 1), name |-> "months"],
       [amount |-> Infinity, name |-> "years"] >>

\* Mutant of AbsLess: the comparison is not strict.
AbsLessOrEqual(duration, amount) ==
    /\ duration.kind # "nan"
    /\ amount.kind = "inf" \/ ~RatLess(amount, MathAbs(duration))

\* Math.abs(duration) < division.amount: false for NaN, true for every
\* other duration when the amount is infinite.
AbsLess(duration, amount) ==
    /\ duration.kind # "nan"
    /\ amount.kind = "inf" \/ RatLess(MathAbs(duration), amount)

\* duration /= division.amount
Divide(duration, amount) ==
    IF duration.kind = "nan" THEN duration
    ELSE IF amount.kind = "inf" THEN Zero
    ELSE RatDiv(duration, amount)

\* formatter.format(value, unit) with the statement it was called from and
\* the number of tiers visited before it.  The string produced is fixed by
\* the integer and the unit; a value that is not finite is a RangeError.
Format(value, unit, exit, visited) ==
    IF value.kind = "nan"
    THEN [kind |-> "throw", message |-> "RangeError", exit |-> exit, visited |-> visited]
    ELSE [kind |-> "formatted", value |-> value.n, unit |-> unit,
          exit |-> exit, visited |-> visited]

\* The for loop of formatTimeAgo from tier i on, and the return after it.
RECURSIVE Walk(_, _)
Walk(duration, i) ==
    IF i > Len(DIVISIONS)
    THEN Format(MathRound(duration), "seconds", "fallback", i - 1)
    ELSE IF AbsLess(duration, DIVISIONS[i].amount)
    THEN Format(MathRound(duration), DIVISIONS[i].name, "loop", i)
    ELSE Walk(Divide(duration, DIVISIONS[i].amount), i + 1)

\* Mutant of StartDuration: duration outlives the call that set it.
StartDurationKept(seconds, last) ==
    IF last.kind = "formatted" THEN Rat(last.value, 1) ELSE seconds

\* let duration = (date.getTime() - new Date().getTime()) / 1000: a local
\* of the call, whatever the last call produced.
StartDuration(seconds, last) == seconds

formatTimeAgo(duration) == Walk(duration, 1)

\* Offsets given in milliseconds: around zero, around the ties and around
\* the thresholds of the tiers up to weeks.
MilliOffsets ==
    {0, 1, 400, 499, 500, 501, 1000, 1499, 1500, 2500, 29500, 30000, 59499,
     59500, 59999, 60000, 60001, 89999, 90000, 90001, 150000, 3570000,
     3599999, 3600000, 5400000, 86399999, 86400000, 129600000, 604799999,
     604800000, 691200000, 907200000}

\* Longer offsets, in units of 36288 seconds: around one month, one and a
\* half months, one year, one and a half years, and ten years.
LongOffsets == {72, 73, 108, 109, 869, 870, 1304, 8691}

Magnitudes ==
    {Rat(ms, 1000) : ms \in MilliOffsets} \cup {Rat(36288 * m, 1) : m \in LongOffsets}

\* (date - now) / 1000 for the dates formatted: in the past, in the future,
\* and of an invalid Date.
TimeOffsets ==
    Magnitudes \cup {[m EXCEPT !.n = 0 - m.n] : m \in Magnitudes} \cup {NaNTime}

InitTime ==
    /\ TimeIdle
    /\ ParseIdle
    /\ UrlIdle
    /\ RunIdle
    /\ ExtIdle

\* One call formatTimeAgo(date), now the same for all calls.  The first
\* call that is remembered stays so; between tells that a call for another
\* date followed it.
FormatCall ==
    \E x \in TimeOffsets :
        /\ offset' = x
        /\ formatted' = formatTimeAgo(StartDuration(x, formatted))
        /\ \/ /\ remembered = NoCall
              /\ remembered' \in {NoCall, [kind |-> "call", offset |-> x,
                                           out |-> formatted', between |-> FALSE]}
           \/ /\ remembered # NoCall
              /\ remembered' = [remembered EXCEPT
                                   !.between = @ \/ x # remembered.offset]
        /\ UNCHANGED <<parseVars, urlVars, runVars, extVars>>

NextTime == FormatCall

SpecTime == InitTime /\ [][NextTime]_vars

\* The tiers in the order of the walk, with what one unit of each is made
\* of: a minute is 60 seconds, ..., a month 4.34524 weeks, a year 12 months.
TierOrder == <<"seconds", "minutes", "hours", "days", "weeks", "months", "years">>

UnitFactors(unit) ==
    CASE unit = "seconds" -> <<Rat(1, 1)>>
      [] unit = "minutes" -> <<Rat(60, 1)>>
      [] unit = "hours" -> <<Rat(3600, 1)>>
      [] unit = "days" -> <<Rat(86400, 1)>>
      [] unit = "weeks" -> <<Rat(604800, 1)>>
      [] unit = "months" -> <<Rat(328500144, 125)>>
      [] OTHER -> <<Rat(328500144, 125), Rat(12, 1)>>

\* A number of seconds expressed in a unit.
InUnits(x, unit) ==
    LET f == UnitFactors(unit)
        y == RatDiv(x, f[1])
    IN  IF Len(f) = 1 THEN y ELSE RatDiv(y, f[2])

\* Rounding to the nearest integer, ties away from zero.
RoundHalfAway(r) ==
    IF r.n >= 0
    THEN (2 * r.n + r.d) \div (2 * r.d)
    ELSE 0 - ((2 * (0 - r.n) + r.d) \div (2 * r.d))

\* C12 (as claimed): the number formatted is the offset, expressed in the
\* unit of the tier where the walk stopped, rounded once to the nearest
\* integer with ties away from zero, for past and future offsets alike; so
\* 90 seconds in the past is -2 minutes.
C12_TiesAwayFromZero ==
    formatted.kind = "formatted" =>
        formatted.value = RoundHalfAway(InUnits(offset, formatted.unit))

\* The amount each tier is compared with, as the documentation gives it.
Threshold(i) ==
    CASE i = 1 -> Rat(60, 1)
      [] i = 2 -> Rat(60, 1)
      [] i = 3 -> Rat(24, 1)
      [] i = 4 -> Rat(7, 1)
      [] i = 5 -> Rat(434524, 100000)
      [] OTHER -> Rat(12, 1)

\* The first tier, from tier i on, at which the size of the offset in the
\* tier's unit is strictly below the tier's threshold; the last tier takes
\* whatever is left.
RECURSIVE FirstTier(_, _)
FirstTier(x, i) ==
    IF i = Len(TierOrder) \/ RatLess(InUnits(MathAbs(x), TierOrder[i]), Threshold(i))
    THEN i
    ELSE FirstTier(x, i + 1)

\* C13: for every signed offset, formatTimeAgo formats in the unit of the
\* first tier (seconds, minutes, hours, days, weeks, months, years) at which
\* the absolute offset divided by all earlier thresholds is strictly below
\* the tier's threshold; 30 seconds ago is -30 seconds, 8 days ago is -1
\* week and an offset of zero is 0 seconds.
C13_FirstMatchingTier ==
    (formatted # NotCalled /\ offset.kind = "rat") =>
        /\ formatted.kind = "formatted"
        /\ formatted.unit = TierOrder[FirstTier(offset, 1)]
        /\ offset = Rat(0 - 30, 1) => formatted.value = 0 - 30 /\ formatted.unit = "seconds"
        /\ offset = Rat(0 - 691200, 1) => formatted.value = 0 - 1 /\ formatted.unit = "weeks"
        /\ offset = Zero => formatted.value = 0 /\ formatted.unit = "seconds"

\* C13 witness: a date 8 days in the past was formatted as -1 week.
C13_Witness ==
    /\ offset = Rat(0 - 691200, 1)
    /\ formatted.kind = "formatted"
    /\ formatted.unit = "weeks"
    /\ formatted.value = 0 - 1

\* C14: for every finite offset the walk returns from inside the loop,
\* having visited at most the seven tiers; the return after the loop is not
\* reached.
C14_ReturnsInsideLoop ==
    (formatted # NotCalled /\ offset.kind = "rat") =>
        /\ formatted.kind = "formatted"
        /\ formatted.exit = "loop"
        /\ formatted.visited \in 1..7

\* C14 witness: an offset of more than a year went through all seven tiers
\* and was formatted in years from inside the loop.
C14_Witness ==
    /\ offset.kind = "rat"
    /\ formatted.kind = "formatted"
    /\ formatted.unit = "years"
    /\ formatted.exit = "loop"
    /\ formatted.visited = 7

EndsWith(str, suffix) ==
    /\ Len(str) >= Len(suffix)
    /\ SubSeq(str, Len(str) - Len(suffix) + 1, Len(str)) = suffix

DotGit == <<".", "g", "i", "t">>

\* if (remoteUrlResult.endsWith(".git")) remoteUrlResult = remoteUrlResult.slice(0, -4)
StripDotGit(str) ==
    IF EndsWith(str, DotGit) THEN SubSeq(str, 1, Len(str) - 4) ELSE str

\* blame.sha of the record the flow was started for.
LinkSha == <<"a", "0">>

\* `${remoteUrlResult}/commit/${blame.sha}`
CommitUrl(base, sha) == base \o <<"/", "c", "o", "m", "m", "i", "t", "/">> \o sha

\* The flow from the result of the ls-remote lookup on: a warning for a
\* falsy result, else the url handed to vscode.open.
OpenOnline(result, remote) ==
    IF Falsy(result)
    THEN [kind |-> "warning", text |-> <<"Could not find remote ">> \o remote]
    ELSE [kind |-> "open", url |-> CommitUrl(StripDotGit(result.text), LinkSha)]

\* Remote urls: a host part, with and without a ".git" ending and with
\* endings that come close to one.
UrlHosts == {<<"h">>, <<"h", "/">>, <<"h", "/", "r">>, <<"g", "i", "t">>, <<".">>, <<>>}

UrlEndings ==
    {<<>>, DotGit, <<".", "g", "i">>, <<"g", "i", "t">>, DotGit \o <<".">>,
     DotGit \o DotGit}

RemoteUrls == {h \o e : h \in UrlHosts, e \in UrlEndings}

\* What follows the url in the output of git ls-remote --get-url: git ends
\* the line; a process killed early may not have got that far.
LineEnds == {<<"\n">>, <<"\r", "\n">>, <<>>}

\* The results runCommand can give for the lookup: its whole output.
LsRemoteResults == {OnClose(u \o t, "0") : u \in RemoteUrls, t \in LineEnds}

InitUrl ==
    /\ remoteUrlResult \in LsRemoteResults
    /\ url = NotCalled
    /\ ParseIdle
    /\ TimeIdle
    /\ RunIdle
    /\ ExtIdle

\* The continuation of showBlame after the ls-remote lookup resolved.
OpenLink ==
    /\ url = NotCalled
    /\ url' = OpenOnline(remoteUrlResult, <<"o">>)
    /\ UNCHANGED <<remoteUrlResult, parseVars, timeVars, runVars, extVars>>

NextUrl == OpenLink

SpecUrl == InitUrl /\ [][NextUrl]_vars

\* The remote url in the output of the lookup: the text up to its line end.
RemoteOf(text) ==
    IF EndsWith(text, <<"\r", "\n">>) THEN SubSeq(text, 1, Len(text) - 2)
    ELSE IF EndsWith(text, <<"\n">>) THEN SubSeq(text, 1, Len(text) - 1)
    ELSE text

\* C16 (as claimed): for every text the ls-remote lookup returns, line end
\* included, the commit link is built on the remote url without its ".git"
\* suffix when the remote url ends in ".git", and on the remote url as it is
\* otherwise.
C16_GitSuffixStripped ==
    url.kind = "open" =>
        LET remote == RemoteOf(remoteUrlResult.text)
            base == IF EndsWith(remote, DotGit)
                    THEN SubSeq(remote, 1, Len(remote) - 4)
                    ELSE remote
        IN  url.url = CommitUrl(base, LinkSha)

\* -------------------------------------------------------------------------
\* Lookups that hang, the shared reference, rejected calls, disabled hints
\* -------------------------------------------------------------------------

\* The step in which a blame process that was sent SIGKILL terminates: its
\* close event, seen from the process.
KilledClose(p) ==
    /\ signalled[p]
    /\ pstate[p] = "running"
    /\ pstate' = [pstate EXCEPT ![p] = "none"]

\* Lookups made with the blame command, and the events of their processes.
NextLive ==
    \/ \E e \in Editors : ShowBlame(e)
    \/ \E p \in Procs : ProcStdout(p)
    \/ \E p \in Procs : ProcClose(p)

\* These with what the operating system guarantees: a process that was
\* sent SIGKILL terminates and its close event is delivered (fairness on
\* the step that takes the process from running to closed).  A process that
\* was not signalled may run for ever.
SpecLive == Init /\ [][NextLive]_vars /\ \A p \in Procs : WF_pstate(KilledClose(p))

\* C17 (as claimed): a blame process that runs when a new lookup with an
\* absolute path is started is sent the kill signal, and so its lookup's
\* promise eventually resolves, whatever lookups and completions came
\* before.
C17_HungIsKilled ==
    \A p \in Procs : (pstate[p] = "running" /\ superseded[p]) ~> (pstate[p] = "none")

\* C18 (as claimed): while the most recently spawned blame process (the one
\* that runs and that no later lookup superseded) has not closed,
\* activeBlame refers to it.
C18_ActiveIsLatest ==
    \A p \in Procs : (pstate[p] = "running" /\ ~superseded[p]) => activeBlame = p

\* C19: a getBlame call that is rejected for its path leaves activeBlame as
\* it is, sends no signal, and touches nothing the lookups in flight deliver
\* their results from or to: the processes, their output so far, the
\* buffers, the promises, the pending calls and the decorations of the
\* other editors.
C19_RejectedCallFrame ==
    [][\A e \in Editors :
          (Path(e)[1] # "/" /\ GetBlameCall(e)) =>
              /\ UNCHANGED <<activeBlame, pstate, signalled, stdout, buffer, promise>>
              /\ UNCHANGED <<lookup, order, superseded, cursor>>
              /\ \A f \in Editors \ {e} : decoration'[f] = decoration[f]]_vars

\* C19 witness: onSelectionChange for the document with the relative path
\* installed the failure while the active blame process, which has
\* delivered output, runs on unsignalled.
C19_Witness ==
    /\ returned = ErrorValue("Cannot blame non-existent file")
    /\ \E e \in Editors :
           /\ Path(e)[1] # "/"
           /\ decoration[e] = Shown(ContentText(returned), cursor[e])
    /\ \E p \in Procs :
           /\ activeBlame = p
           /\ pstate[p] = "running"
           /\ ~signalled[p]
           /\ stdout[p] # <<>>

\* C20 (as claimed): while inline hints stay disabled, a decoration that is
\* empty stays empty, whatever happens: selection changes, and the
\* completion of lookups started while hints were enabled.
C20_NoHintWhileDisabled ==
    [][(~showInlineHints /\ ~showInlineHints') =>
          \A e \in Editors :
              decoration[e] = NoDecoration => decoration'[e] = NoDecoration]_vars

====
